---------------------------- MODULE Spec2Model ----------------------------
(***************************************************************************)
(* Model of the NocoDB MCP server in its two front doors:                  *)
(*   surface A  src/mcp-server-fastapi.py  (FastAPI, POST /call)           *)
(*   surface B  src/nocodb_mcp_server.py   (FastMCP tools, lifespan)       *)
(* The state is the server context (credential, session reference), the    *)
(* aiohttp sessions created so far, the process phase and the tool         *)
(* invocations in flight.  An invocation is suspended only where the code  *)
(* awaits the network: for the response and for the response body.         *)
(***************************************************************************)
EXTENDS Integers, Sequences, FiniteSets, TLC

(***************************************************************************)
(* Bounds of the model.                                                    *)
(***************************************************************************)
\* sessions one process may create (caps the restart cycles)
MaxSessions == 2
\* concurrent invocations in the concurrency specification
MaxInv == 2
\* records in a remote list body
MaxRecords == 1
\* records in a batch of the aggregation specification
MaxBatch == 2

(***************************************************************************)
(* Values.                                                                 *)
(***************************************************************************)
\* Python None
NoneVal == "<None>"

\* os.getenv("NOCODB_API_TOKEN"): unset, set empty, set
EnvTokens == {NoneVal, "", "envtok"}

\* Python truthiness of an optional string
Truthy(v) == v \notin {NoneVal, ""}

\* URLs are sequences of text pieces, so that rstrip("/") is computed
DefaultUrl == <<"https://nocodb.v1su4.com">>
AltUrl == <<"http://alt.example", "/", "/">>

RECURSIVE RStripSlash(_)
\* str.rstrip("/") : drop every trailing "/"
RStripSlash(u) ==
    IF Len(u) > 0 /\ u[Len(u)] = "/"
    THEN RStripSlash(SubSeq(u, 1, Len(u) - 1))
    ELSE u

\* os.getenv("NOCODB_URL", default)
EnvUrl == DefaultUrl


(***************************************************************************)
(* Tool catalogue and argument mappings.                                   *)
(***************************************************************************)
ToolNames ==
    { "nocodb_test_connection", "nocodb_list_projects", "nocodb_list_tables",
      "nocodb_get_records", "nocodb_create_record", "nocodb_search_records",
      "nocodb_update_record", "nocodb_delete_record",
      "nocodb_create_discord_reactions_table", "nocodb_get_analytics" }

\* a name that no branch of the dispatcher and no registered tool matches
UnknownName == "unknown_op"

\* the arguments that carry data of the remote call
DataArgs == {"project_id", "table_id", "record_id", "record_data", "filters"}

\* "required" of each inputSchema of GET /tools
CatalogRequired(name) ==
    CASE name = "nocodb_test_connection" -> {"api_token"}
      [] name = "nocodb_list_projects" -> {"api_token"}
      [] name = "nocodb_list_tables" -> {"project_id", "api_token"}
      [] name = "nocodb_get_records" -> {"project_id", "table_id", "api_token"}
      [] name = "nocodb_create_record" ->
            {"project_id", "table_id", "record_data", "api_token"}
      [] name = "nocodb_search_records" ->
            {"project_id", "table_id", "filters", "api_token"}
      [] name = "nocodb_update_record" ->
            {"project_id", "table_id", "record_id", "record_data", "api_token"}
      [] name = "nocodb_delete_record" ->
            {"project_id", "table_id", "record_id", "api_token"}
      [] name = "nocodb_create_discord_reactions_table" ->
            {"project_id", "api_token"}
      [] name = "nocodb_get_analytics" -> {"project_id", "table_id", "api_token"}
      [] OTHER -> {}

\* surface A: the keys execute_nocodb_tool reads with args[key], in order
SubscriptedA(name) ==
    CASE name = "nocodb_list_tables" -> <<"project_id">>
      [] name = "nocodb_get_records" -> <<"project_id", "table_id">>
      [] name = "nocodb_create_record" -> <<"project_id", "table_id", "record_data">>
      [] name = "nocodb_search_records" -> <<"project_id", "table_id">>
      [] name = "nocodb_update_record" ->
            <<"project_id", "table_id", "record_id", "record_data">>
      [] name = "nocodb_delete_record" -> <<"project_id", "table_id", "record_id">>
      [] name = "nocodb_create_discord_reactions_table" -> <<"project_id">>
      [] name = "nocodb_get_analytics" -> <<"project_id", "table_id">>
      [] OTHER -> <<>>

\* surface B: the parameters without a default of each tool function, in order
SignatureB(name) ==
    CASE name = "nocodb_list_tables" -> <<"project_id">>
      [] name = "nocodb_get_records" -> <<"project_id", "table_id">>
      [] name = "nocodb_create_record" -> <<"project_id", "table_id", "record_data">>
      [] name = "nocodb_search_records" -> <<"project_id", "table_id", "filters">>
      [] name = "nocodb_update_record" ->
            <<"project_id", "table_id", "record_id", "record_data">>
      [] name = "nocodb_delete_record" -> <<"project_id", "table_id", "record_id">>
      [] name = "nocodb_create_discord_reactions_table" -> <<"project_id">>
      [] name = "nocodb_get_analytics" -> <<"project_id", "table_id">>
      [] OTHER -> <<>>

\* the tools surface B registers: the ten operations and health_check
RegisteredB == ToolNames \cup {"health_check"}

\* dict.get(key, default)
ArgGet(args, key, default) == IF key \in DOMAIN args THEN args[key] ELSE default

\* the first key of keys that the mapping lacks, or NoneVal
FirstMissing(keys, args) ==
    IF \E k \in DOMAIN keys : keys[k] \notin DOMAIN args
    THEN keys[CHOOSE k \in DOMAIN keys :
                /\ keys[k] \notin DOMAIN args
                /\ \A j \in DOMAIN keys : j < k => keys[j] \in DOMAIN args]
    ELSE NoneVal

\* json.dumps of a filters dict: each dict is named by its text
JsonDumps(v) ==
    CASE v = "dict:empty" -> "{}"
      [] v = "dict:name=x" -> "{\"name\": \"x\"}"
      [] OTHER -> "null"

\* the default of args.get("filters", {}) in surface A
EmptyDict == "dict:empty"
\* the defaults of limit and offset, as they are written into the query
DefaultLimit == "10"
DefaultOffset == "0"

(***************************************************************************)
(* Exceptions and their text.                                              *)
(***************************************************************************)
Exc(type, status, text) == [type |-> type, status |-> status, text |-> text]
NoExc == Exc("", 0, "")

\* str(e).  HTTPException prints "<status>: <detail>", ClientResponseError
\* (and its subclass ContentTypeError) "<status>, message=..., url=...",
\* KeyError the repr of the key, asyncio.TimeoutError nothing.
StrExc(e) ==
    CASE e.type = "HTTPException" -> <<ToString(e.status), ": ", e.text>>
      [] e.type \in {"ClientResponseError", "ContentTypeError"} ->
            <<ToString(e.status), ", message=", e.text, ", url=...">>
      [] e.type = "KeyError" -> <<"'", e.text, "'">>
      [] e.type = "TimeoutError" -> <<>>
      [] OTHER -> <<e.text>>

\* whether a message shows the status code
MsgHasStatus(msg, st) == \E k \in DOMAIN msg : msg[k] = ToString(st)

(***************************************************************************)
(* Outbound requests.                                                      *)
(***************************************************************************)
Req(method, base, path, query, body, hasCT, authName, authValue) ==
    [ method |-> method, base |-> base, path |-> path, query |-> query,
      body |-> body, contentType |-> hasCT,
      authName |-> authName, authValue |-> authValue ]
NoReq == Req("", <<>>, <<>>, <<>>, NoneVal, FALSE, "", NoneVal)

\* the fixed schema posted by create_discord_reactions_table
TableSchema == "schema:discord_heart_reactions"

\* HTTP method of each operation's session call
MethodOf(name) ==
    CASE name \in {"nocodb_create_record", "nocodb_create_discord_reactions_table"}
            -> "POST"
      [] name = "nocodb_update_record" -> "PATCH"
      [] name = "nocodb_delete_record" -> "DELETE"
      [] OTHER -> "GET"

\* the f-string path of each operation
PathOf(name, args) ==
    CASE name \in {"nocodb_test_connection", "nocodb_list_projects", "health_check"} ->
            <<"/api/v1/db/meta/projects">>
      [] name \in {"nocodb_list_tables", "nocodb_create_discord_reactions_table"} ->
            <<"/api/v1/db/meta/projects/", args["project_id"], "/tables">>
      [] name \in {"nocodb_get_records", "nocodb_create_record",
                   "nocodb_search_records"} ->
            <<"/api/v1/db/data/noco/", args["project_id"], "/", args["table_id"]>>
      [] name \in {"nocodb_update_record", "nocodb_delete_record"} ->
            <<"/api/v1/db/data/noco/", args["project_id"], "/", args["table_id"],
              "/", args["record_id"]>>
      [] name = "nocodb_get_analytics" ->
            <<"/api/v1/db/data/noco/", args["project_id"], "/", args["table_id"],
              "?limit=1000">>

\* json= of each operation
BodyOf(name, args) ==
    CASE name \in {"nocodb_create_record", "nocodb_update_record"} ->
            args["record_data"]
      [] name = "nocodb_create_discord_reactions_table" -> TableSchema
      [] OTHER -> NoneVal

\* params= written without the defaults: limit and offset are sent only when
\* the arguments hold them
QueryA_NoDefaults(name, args) ==
    CASE name = "nocodb_get_records" ->
            (IF "limit" \in DOMAIN args THEN << <<"limit", args["limit"]>> >> ELSE <<>>)
            \o (IF "offset" \in DOMAIN args THEN << <<"offset", args["offset"]>> >> ELSE <<>>)
      [] name = "nocodb_search_records" ->
            << <<"where", JsonDumps(ArgGet(args, "filters", EmptyDict))>> >>
      [] OTHER -> <<>>

\* params= of surface A
QueryA(name, args) ==
    CASE name = "nocodb_get_records" ->
            << <<"limit", ArgGet(args, "limit", DefaultLimit)>>,
               <<"offset", ArgGet(args, "offset", DefaultOffset)>> >>
      [] name = "nocodb_search_records" ->
            << <<"where", JsonDumps(ArgGet(args, "filters", EmptyDict))>> >>
      [] OTHER -> <<>>

\* params= of surface B (limit and offset default in the signature)
QueryB(name, args) ==
    CASE name = "nocodb_get_records" ->
            << <<"limit", ArgGet(args, "limit", DefaultLimit)>>,
               <<"offset", ArgGet(args, "offset", DefaultOffset)>> >>
      [] name = "nocodb_search_records" ->
            << <<"where", JsonDumps(args["filters"])>> >>
      [] OTHER -> <<>>

\* the request sent to the configured base URL whatever the arguments say
RequestA_ConfiguredBase(name, args, api_token) ==
    Req(MethodOf(name), RStripSlash(EnvUrl),
        PathOf(name, args), QueryA(name, args), BodyOf(name, args),
        TRUE, "xc-auth", api_token)

\* surface A: headers carry Content-Type and xc-auth on every request
RequestA(name, args, api_token) ==
    Req(MethodOf(name), RStripSlash(ArgGet(args, "url", EnvUrl)),
        PathOf(name, args), QueryA(name, args), BodyOf(name, args),
        TRUE, "xc-auth", api_token)

\* the probe of health_check sent without its header
RequestB_ProbeWithoutHeader(name, args, baseUrl, api_token) ==
    Req(MethodOf(name), baseUrl, PathOf(name, args), QueryB(name, args),
        BodyOf(name, args), MethodOf(name) \in {"POST", "PATCH"},
        "xc-token", IF name = "health_check" THEN NoneVal ELSE api_token)

\* surface B: xc-token, Content-Type only on the calls that send json=
RequestB(name, args, baseUrl, api_token) ==
    Req(MethodOf(name), baseUrl, PathOf(name, args), QueryB(name, args),
        BodyOf(name, args), MethodOf(name) \in {"POST", "PATCH"},
        "xc-token", api_token)

(***************************************************************************)
(* Remote responses.                                                       *)
(***************************************************************************)
\* status lines the remote service answers with: 200, another 2xx, a 3xx
\* that aiohttp does not follow as a redirect, and a client error
Statuses == {200, 201, 304, 404}

\* ClientResponse.ok, the test of raise_for_status()
StatusOk(st) == st < 400

\* failures of the transport while the request or a body is awaited
TransportErrors ==
    { Exc("ClientConnectorError", 0, "Cannot connect to host"),
      Exc("TimeoutError", 0, "") }

\* minutes; datetime.now() of the aggregation and timedelta(hours=24)
Day == 24 * 60
ClockNow == 3 * Day

\* JSON literals of a record field, as text; NoneVal is an absent field
JsonTruthy(v) == v \notin {NoneVal, "", "false", "0", "null"}

\* a timestamp field: absent, "", an ISO text without offset (naive), an ISO
\* text ending in Z or an offset (aware), a text that is no ISO date, a number
Ts(kind, t) == [kind |-> kind, t |-> t]
Rec(img, cin, ani, sref, shot, ts) ==
    [ image_url |-> img, cinematic |-> cin, anime |-> ani, sref_code |-> sref,
      shot_type |-> shot, timestamp |-> ts ]

SampleRecords ==
    { Rec("http://img/1", "true", "false", "sref1", "wide", Ts("naive", ClockNow - 60)),
      Rec(NoneVal, "false", "true", "", "close", Ts("naive", ClockNow - Day)),
      Rec(NoneVal, NoneVal, NoneVal, NoneVal, NoneVal, Ts("absent", 0)),
      Rec("http://img/2", "true", "true", NoneVal, "wide", Ts("aware", ClockNow - 60)),
      Rec(NoneVal, "false", "false", "sref2", NoneVal, Ts("malformed", 0)),
      Rec(NoneVal, NoneVal, NoneVal, NoneVal, "close", Ts("number", 0)) }

Batches == UNION { [1..n -> SampleRecords] : n \in 0..MaxRecords }

\* what the remote service sends as a body.  kind: a JSON object (with or
\* without a "list" member), a JSON array, an empty body, text that is not
\* JSON, a body of another content type, a body whose transfer breaks
RespBody(kind, hasList, list) == [kind |-> kind, hasList |-> hasList, list |-> list]
NoBody == RespBody("none", FALSE, <<>>)
Bodies ==
    { RespBody(k, FALSE, <<>>) :
        k \in {"obj", "arr", "empty", "badjson", "badctype", "broken"} }
    \cup { RespBody("obj", TRUE, b) : b \in Batches }

\* await response.json(): the exception it raises, or NoExc
JsonExc(body, st) ==
    CASE body.kind = "badjson" -> Exc("JSONDecodeError", 0, "Expecting value")
      [] body.kind = "badctype" ->
            Exc("ContentTypeError", st, "Attempt to decode JSON with unexpected mimetype")
      [] body.kind = "broken" ->
            Exc("ClientPayloadError", 0, "Response payload is not completed")
      [] OTHER -> NoExc

\* the list read as data["list"]: a body without the member raises
GetListExc_Subscript(body) ==
    IF body.kind = "obj" /\ body.hasList THEN NoExc
    ELSE Exc("KeyError", 0, "list")

\* data.get("list", []) on the parsed body: only a JSON object has .get
GetListExc(body) ==
    IF body.kind = "obj" THEN NoExc
    ELSE Exc("AttributeError", 0, "object has no attribute 'get'")
RecordsOf(body) == IF body.hasList THEN body.list ELSE <<>>

(***************************************************************************)
(* Analytics aggregation.                                                  *)
(***************************************************************************)
\* len([r for r in records if r.get(field)])
CountTruthy(records, field) ==
    Cardinality({k \in DOMAIN records : JsonTruthy(records[k][field])})

\* round(x, 1) of count / total * 100, in tenths, ties to even
RoundTenths(count, total) ==
    LET n == 1000 * count
        q == n \div total
        r == n % total
    IN  IF 2 * r < total THEN q
        ELSE IF 2 * r > total THEN q + 1
        ELSE IF q % 2 = 0 THEN q ELSE q + 1

Percentage(count, total) == IF total > 0 THEN RoundTenths(count, total) ELSE 0

\* the shot type breakdown: a count for every truthy shot_type that occurs
ShotTypes(records) ==
    LET keys == {records[k].shot_type : k \in {j \in DOMAIN records :
                                             JsonTruthy(records[j].shot_type)}}
    IN  [s \in keys |-> Cardinality({k \in DOMAIN records : records[k].shot_type = s})]

TsTruthy(ts) == ts.kind \notin {"absent", "empty"}

\* what datetime.fromisoformat(r["timestamp"].replace('Z', '+00:00')) > cutoff
\* raises for a truthy timestamp: .replace on a number, the parse of a text that
\* is no date, the comparison of an aware datetime with the naive cutoff
TsExc(ts) ==
    CASE ts.kind = "number" -> Exc("AttributeError", 0, "object has no attribute 'replace'")
      [] ts.kind = "malformed" -> Exc("ValueError", 0, "Invalid isoformat string")
      [] ts.kind = "aware" ->
            Exc("TypeError", 0, "can't compare offset-naive and offset-aware datetimes")
      [] OTHER -> NoExc

\* the comparison written as >= : the cutoff itself counts
IsRecent_NonStrict(ts, now) == ts.kind = "naive" /\ ts.t >= now - Day

IsRecent(ts, now) == ts.kind = "naive" /\ ts.t > now - Day

\* the first record, in order, whose timestamp raises one of the given types
FirstTsExc(records, types) ==
    LET bad == {k \in DOMAIN records :
                    /\ TsTruthy(records[k].timestamp)
                    /\ TsExc(records[k].timestamp).type \in types}
    IN  IF bad = {} THEN NoExc
        ELSE TsExc(records[CHOOSE k \in bad : \A j \in bad : k <= j].timestamp)

Analytics(records, recent) ==
    LET total == Len(records)
        cin == CountTruthy(records, "cinematic")
        ani == CountTruthy(records, "anime")
        sref == CountTruthy(records, "sref_code")
    IN  [ total_reactions |-> total,
          with_images |-> CountTruthy(records, "image_url"),
          cinematic_count |-> cin,
          anime_count |-> ani,
          with_sref_codes |-> sref,
          shot_types |-> ShotTypes(records),
          recent_24h |-> recent,
          cinematic_percentage |-> Percentage(cin, total),
          anime_percentage |-> Percentage(ani, total),
          sref_coverage |-> Percentage(sref, total) ]
NoAnalytics == Analytics(<<>>, 0)

\* a count that stops at the first record that is not recent
RecentCount_Leading(records, now) ==
    Cardinality({k \in DOMAIN records :
                    \A j \in 1..k : /\ TsTruthy(records[j].timestamp)
                                    /\ IsRecent(records[j].timestamp, now)})

RecentCount(records, now) ==
    Cardinality({k \in DOMAIN records :
                    /\ TsTruthy(records[k].timestamp)
                    /\ IsRecent(records[k].timestamp, now)})

\* surface A: the list comprehension has no handler, every exception leaves it
AggregateExcA(records) ==
    FirstTsExc(records, {"AttributeError", "ValueError", "TypeError"})

\* surface B: ValueError and AttributeError are swallowed per record
AggregateExcB(records) == FirstTsExc(records, {"TypeError"})

(***************************************************************************)
(* State.                                                                  *)
(***************************************************************************)
VARIABLES
    surface,    \* "A" (FastAPI) or "B" (FastMCP): which server this process is
    envToken,   \* os.getenv("NOCODB_API_TOKEN")
    phase,      \* "init", "running", "stopped", "failed" (startup raised)
    ctx,        \* the context: mcp_state (A) or the lifespan context (B)
    created,    \* number of ClientSession objects constructed so far
    open,       \* the sessions, by number, that are not closed
    inv         \* the invocations, by slot

vars == <<surface, envToken, phase, ctx, created, open, inv>>

(***************************************************************************)
(* Session manager.                                                        *)
(***************************************************************************)
SessState(session, n, o) == [session |-> session, created |-> n, open |-> o]

\* the test written without "or self.session.closed": a closed session is reused
MCPState_get_session_NoClosedTest(session, n, o) ==
    IF session = 0
    THEN SessState(n + 1, n + 1, o \cup {n + 1})
    ELSE SessState(session, n, o)

\* a session constructed on every call, the held one left open
MCPState_get_session_AlwaysNew(session, n, o) ==
    SessState(n + 1, n + 1, o \cup {n + 1})

\* MCPState.get_session: reuse the open session, else construct one
MCPState_get_session(session, n, o) ==
    IF session = 0 \/ session \notin o
    THEN SessState(n + 1, n + 1, o \cup {n + 1})
    ELSE SessState(session, n, o)

\* NocoDBContext.get_session: the same code in surface B
NocoDBContext_get_session(session, n, o) ==
    IF session = 0 \/ session \notin o
    THEN SessState(n + 1, n + 1, o \cup {n + 1})
    ELSE SessState(session, n, o)

\* the state after a release, and whether the release raised
Released(session, o, raised) == [session |-> session, open |-> o, raised |-> raised]

\* close written without its guard: session.close() on None raises
MCPState_close_Unguarded(session, o) ==
    IF session = 0 THEN Released(session, o, TRUE)
    ELSE Released(session, o \ {session}, FALSE)

\* close that leaves the session open
MCPState_close_Noop(session, o) == Released(session, o, FALSE)

\* MCPState.close: close the session if there is one and it is open
MCPState_close(session, o) ==
    IF session # 0 /\ session \in o
    THEN Released(session, o \ {session}, FALSE)
    ELSE Released(session, o, FALSE)

\* NocoDBContext.close_session: the same code in surface B
NocoDBContext_close_session(session, o) ==
    IF session # 0 /\ session \in o
    THEN Released(session, o \ {session}, FALSE)
    ELSE Released(session, o, FALSE)

get_session(session, n, o) ==
    IF surface = "A" THEN MCPState_get_session(session, n, o)
    ELSE NocoDBContext_get_session(session, n, o)

close_session(session, o) ==
    IF surface = "A" THEN MCPState_close(session, o)
    ELSE NocoDBContext_close_session(session, o)

(***************************************************************************)
(* Results.                                                                *)
(***************************************************************************)
Result(tag, body, analytics, message) ==
    [tag |-> tag, body |-> body, analytics |-> analytics, message |-> message]
NoResult == Result("none", NoBody, NoAnalytics, "")
\* the parsed body; an empty body parses to None
JsonResult(body) ==
    Result(IF body.kind = "empty" THEN "null" ELSE "json", body, NoAnalytics, "")
DeletedResult == Result("deleted", NoBody, NoAnalytics, "Record deleted successfully")
AnalyticsResult(a) == Result("analytics", NoBody, a, "")
HealthResult(status) == Result("health", NoBody, NoAnalytics, status)

\* what the caller receives.  fault: no structured result of the tool at
\* all; http: the status line of surface A's answer (0 in surface B); exc:
\* the exception that was raised while the call was served, NoExc if none
Out(fault, http, success, hasError, error, hasResult, result, exc) ==
    [ fault |-> fault, http |-> http, success |-> success, hasError |-> hasError,
      error |-> error, hasResult |-> hasResult, result |-> result, exc |-> exc ]
NoOut == Out(FALSE, 0, FALSE, FALSE, <<>>, FALSE, NoResult, NoExc)

\* execute_tool: return MCPResponse(success=True, result=result)
OkA(result) == Out(FALSE, 200, TRUE, FALSE, <<>>, result.tag # "null", result, NoExc)

\* the handler written as "except HTTPException: raise" before the general
\* one: an HTTPException reaches http_exception_handler and sets the status line
FailA_Propagate(e) ==
    IF e.type = "HTTPException"
    THEN Out(FALSE, e.status, FALSE, TRUE, <<e.text>>, FALSE, NoResult, e)
    ELSE Out(FALSE, 200, FALSE, TRUE, StrExc(e), FALSE, NoResult, e)

\* execute_tool: except Exception as e: return MCPResponse(success=False,
\* error=str(e)).  HTTPException is an Exception, so it is answered here too.
FailA(e) == Out(FALSE, 200, FALSE, TRUE, StrExc(e), FALSE, NoResult, e)

\* the text each tool of surface B puts before str(e)
PrefixB(name) ==
    CASE name = "health_check" -> "Health check failed: "
      [] name = "nocodb_test_connection" -> "Connection test failed: "
      [] name = "nocodb_list_projects" -> "Failed to list projects: "
      [] name = "nocodb_list_tables" -> "Failed to list tables: "
      [] name = "nocodb_get_records" -> "Failed to get records: "
      [] name = "nocodb_create_record" -> "Failed to create record: "
      [] name = "nocodb_update_record" -> "Failed to update record: "
      [] name = "nocodb_delete_record" -> "Failed to delete record: "
      [] name = "nocodb_search_records" -> "Failed to search records: "
      [] name = "nocodb_create_discord_reactions_table" ->
            "Failed to create Discord reactions table: "
      [] name = "nocodb_get_analytics" -> "Failed to get analytics: "

\* a tool of surface B: return json.dumps({"success": True, ...})
OkB(result) == Out(FALSE, 0, TRUE, FALSE, <<>>, TRUE, result, NoExc)

\* health_check: the probe's exception is caught inside and reported as the
\* nocodb_status of a success result
HealthB(status, e) == Out(FALSE, 0, TRUE, FALSE, <<>>, TRUE, HealthResult(status), e)

\* a tool of surface B: except Exception as e: json.dumps({"success": False, ...})
FailB(name, e) ==
    Out(FALSE, 0, FALSE, TRUE, <<PrefixB(name)>> \o StrExc(e), FALSE, NoResult, e)

\* nocodb_test_connection of surface B on a status other than 200
ConnectionFailedB(st, text) ==
    Out(FALSE, 0, FALSE, TRUE,
        <<"Connection failed with status ", ToString(st), ": ", text>>,
        FALSE, NoResult, Exc("status", st, text))

\* surface B: the call never enters a tool function (no tool of that name, or
\* a parameter without default is not bound); the caller gets no result of
\* a tool
NotEnteredB(why) ==
    Out(TRUE, 0, FALSE, TRUE, <<why>>, FALSE, NoResult, Exc("NotEntered", 0, why))

(***************************************************************************)
(* Invocations.                                                            *)
(***************************************************************************)
\* a response: a status line, or a failure of the transport
Resp(status, exc) == [status |-> status, exc |-> exc]
NoResp == Resp(0, NoExc)

\* pc: "idle", "response" (awaiting the response), "body" (awaiting
\* response.json()), "text" (awaiting response.text()), "done"
\* acq: get_session was called; sess: the session it returned; nreq: the
\* outbound requests issued; reqOpen: the session was open when the request
\* was issued on it; resp: what the await of the request yielded; body: what
\* response.json() was given to parse, NoBody while the body was not read
Inv(pc, name, args, token, acq, sess, nreq, req, reqOpen, status, resp, body, out) ==
    [ pc |-> pc, name |-> name, args |-> args, token |-> token, acq |-> acq,
      sess |-> sess, nreq |-> nreq, req |-> req, reqOpen |-> reqOpen,
      status |-> status, resp |-> resp, body |-> body, out |-> out ]
Idle ==
    Inv("idle", "", <<>>, NoneVal, FALSE, 0, 0, NoReq, FALSE, 0, NoResp, NoBody, NoOut)

Finish(v, out) == [v EXCEPT !.pc = "done", !.out = out]

\* ClientSession._request on a closed session raises before anything is sent
SessionClosedExc == Exc("RuntimeError", 0, "Session is closed")

\* the context object: MCPState of surface A, NocoDBContext of surface B
Ctx(exists, url, token, session) ==
    [exists |-> exists, nocodb_url |-> url, api_token |-> token, session |-> session]
NoCtx == Ctx(FALSE, <<>>, NoneVal, 0)

\* the request sent a second time after the first
Issue_Twice(v, ss, req) ==
    [v EXCEPT !.pc = "response", !.nreq = v.nreq + 2, !.req = req,
              !.reqOpen = ss.session \in ss.open]

\* session.get / post / patch / delete on the acquired session: one request
\* goes out and the invocation awaits the response
Issue(v, ss, req) ==
    [v EXCEPT !.pc = "response", !.nreq = v.nreq + 1, !.req = req,
              !.reqOpen = ss.session \in ss.open]

\* the process default preferred to the credential of the arguments
ResolveToken_DefaultFirst(args, c) ==
    IF Truthy(c.api_token) THEN c.api_token ELSE ArgGet(args, "api_token", c.api_token)

\* execute_tool: api_token = tool_call.arguments.get("api_token", mcp_state.api_token)
ResolveToken(args, c) == ArgGet(args, "api_token", c.api_token)

\* the test written as "if api_token is None": an empty credential passes
TokenMissing_NoneOnly(api_token) == api_token = NoneVal

\* execute_tool: if not api_token
TokenMissing(api_token) == ~Truthy(api_token)

\* execute_nocodb_tool written with the session reference read from the
\* context (session = mcp_state.session) and the request started on it as
\* it is, with no acquire
StartA_HeldSession(name, args, c, n, o) ==
    LET api_token == ResolveToken(args, c)
        v0 == Inv("start", name, args, api_token, FALSE, 0, 0, NoReq, FALSE, 0,
                  NoResp, NoBody, NoOut)
    IN  IF TokenMissing(api_token)
        THEN [ v |-> Finish(v0, FailA(Exc("HTTPException", 400, "API token required"))),
               ss |-> SessState(c.session, n, o) ]
        ELSE
          LET ss == SessState(c.session, n, o)
              v1 == [v0 EXCEPT !.acq = TRUE, !.sess = ss.session]
              missing == FirstMissing(SubscriptedA(name), args)
          IN  [ ss |-> ss,
                v |->
                  IF name \notin ToolNames
                  THEN Finish(v1, FailA(Exc("HTTPException", 400, "Unknown tool")))
                  ELSE IF missing # NoneVal
                  THEN Finish(v1, FailA(Exc("KeyError", 0, missing)))
                  ELSE Issue(v1, ss, RequestA(name, args, api_token)) ]

\* surface A, execute_tool and execute_nocodb_tool up to the first await of
\* the network.  Yields the invocation and the session state.
StartA(name, args, c, n, o) ==
    LET api_token == ResolveToken(args, c)
        v0 == Inv("start", name, args, api_token, FALSE, 0, 0, NoReq, FALSE, 0,
                  NoResp, NoBody, NoOut)
    IN  IF TokenMissing(api_token)
        THEN [ v |-> Finish(v0, FailA(Exc("HTTPException", 400, "API token required"))),
               ss |-> SessState(c.session, n, o) ]
        ELSE
          LET ss == MCPState_get_session(c.session, n, o)
              v1 == [v0 EXCEPT !.acq = TRUE, !.sess = ss.session]
              missing == FirstMissing(SubscriptedA(name), args)
          IN  [ ss |-> ss,
                v |->
                  IF name \notin ToolNames
                  THEN Finish(v1, FailA(Exc("HTTPException", 400, "Unknown tool")))
                  ELSE IF missing # NoneVal
                  THEN Finish(v1, FailA(Exc("KeyError", 0, missing)))
                  ELSE IF ss.session \notin ss.open
                  THEN Finish(v1, FailA(SessionClosedExc))
                  ELSE Issue(v1, ss, RequestA(name, args, api_token)) ]

\* surface B, a tool call up to the first await of the network.  A name that
\* is not registered, or a call that does not bind every parameter without
\* default, never enters a tool function.
StartB(name, args, c, n, o) ==
    LET v0 == Inv("start", name, args, c.api_token, FALSE, 0, 0, NoReq, FALSE, 0,
                  NoResp, NoBody, NoOut)
    IN  IF name \notin RegisteredB
        THEN [ v |-> Finish(v0, NotEnteredB("Unknown tool")),
               ss |-> SessState(c.session, n, o) ]
        ELSE IF FirstMissing(SignatureB(name), args) # NoneVal
        THEN [ v |-> Finish(v0, NotEnteredB("missing required argument")),
               ss |-> SessState(c.session, n, o) ]
        ELSE IF ~c.exists
        THEN [ v |-> Finish(v0, IF name = "health_check"
                                THEN HealthB("starting", NoExc)
                                ELSE FailB(name, Exc("AttributeError", 0,
                                                     "lifespan_context"))),
               ss |-> SessState(c.session, n, o) ]
        ELSE
          LET ss == NocoDBContext_get_session(c.session, n, o)
              v1 == [v0 EXCEPT !.acq = TRUE, !.sess = ss.session]
          IN  [ ss |-> ss,
                v |->
                  IF ss.session \notin ss.open
                  THEN Finish(v1, IF name = "health_check"
                                  THEN HealthB("error", SessionClosedExc)
                                  ELSE FailB(name, SessionClosedExc))
                  ELSE Issue(v1, ss, RequestB(name, args, c.nocodb_url, c.api_token)) ]

Responses ==
    {Resp(st, NoExc) : st \in Statuses} \cup {Resp(0, e) : e \in TransportErrors}

\* delete_record written like the other branches: it awaits response.json()
AfterResponseA_DeleteReadsBody(v, resp) ==
    LET st == resp.status
        w == [v EXCEPT !.status = st, !.resp = resp]
    IN  IF resp.exc # NoExc THEN Finish(w, FailA(resp.exc))
        ELSE IF v.name = "nocodb_test_connection"
        THEN IF st # 200
             THEN Finish(w, FailA(Exc("HTTPException", st, "Connection failed")))
             ELSE [w EXCEPT !.pc = "body"]
        ELSE IF ~StatusOk(st)
        THEN Finish(w, FailA(Exc("ClientResponseError", st, "reason")))
        ELSE [w EXCEPT !.pc = "body"]

\* surface A after the response arrived: the status test of each branch
AfterResponseA(v, resp) ==
    LET st == resp.status
        w == [v EXCEPT !.status = st, !.resp = resp]
    IN  IF resp.exc # NoExc THEN Finish(w, FailA(resp.exc))
        ELSE IF v.name = "nocodb_test_connection"
        THEN IF st # 200
             THEN Finish(w, FailA(Exc("HTTPException", st, "Connection failed")))
             ELSE [w EXCEPT !.pc = "body"]
        ELSE IF ~StatusOk(st)
        THEN Finish(w, FailA(Exc("ClientResponseError", st, "reason")))
        ELSE IF v.name = "nocodb_delete_record"
        THEN Finish(w, OkA(DeletedResult))
        ELSE [w EXCEPT !.pc = "body"]

\* surface A, nocodb_get_analytics from data.get("list", []) to the return
SummaryA(body, now) ==
    IF GetListExc(body) # NoExc THEN FailA(GetListExc(body))
    ELSE LET records == RecordsOf(body)
             e == AggregateExcA(records)
         IN  IF e # NoExc THEN FailA(e)
             ELSE OkA(AnalyticsResult(Analytics(records, RecentCount(records, now))))

\* surface A after the body arrived
AfterBodyA(v, body, now) ==
    LET je == JsonExc(body, v.status)
        w == [v EXCEPT !.body = body]
    IN  IF je # NoExc THEN Finish(w, FailA(je))
        ELSE IF v.name = "nocodb_get_analytics" THEN Finish(w, SummaryA(body, now))
        ELSE Finish(w, OkA(JsonResult(body)))

\* surface B after the response arrived
AfterResponseB(v, resp) ==
    LET st == resp.status
        w == [v EXCEPT !.status = st, !.resp = resp]
    IN  IF v.name = "health_check"
        THEN Finish(w, HealthB(IF resp.exc # NoExc THEN "error"
                               ELSE IF st = 200 THEN "healthy" ELSE "unhealthy",
                               resp.exc))
        ELSE IF resp.exc # NoExc THEN Finish(w, FailB(v.name, resp.exc))
        ELSE IF v.name = "nocodb_test_connection"
        THEN [w EXCEPT !.pc = IF st # 200 THEN "text" ELSE "body"]
        ELSE IF ~StatusOk(st)
        THEN Finish(w, FailB(v.name, Exc("ClientResponseError", st, "reason")))
        ELSE IF v.name = "nocodb_delete_record"
        THEN Finish(w, OkB(DeletedResult))
        ELSE [w EXCEPT !.pc = "body"]

\* surface B, nocodb_test_connection after await response.text()
AfterTextB(v, broken) ==
    IF broken
    THEN Finish(v, FailB(v.name, Exc("ClientPayloadError", 0,
                                     "Response payload is not completed")))
    ELSE Finish(v, ConnectionFailedB(v.status, "error_text"))

\* surface B, nocodb_get_analytics from data.get("list", []) to the return
SummaryB(body, now) ==
    IF GetListExc(body) # NoExc THEN FailB("nocodb_get_analytics", GetListExc(body))
    ELSE LET records == RecordsOf(body)
             e == AggregateExcB(records)
         IN  IF e # NoExc THEN FailB("nocodb_get_analytics", e)
             ELSE OkB(AnalyticsResult(Analytics(records, RecentCount(records, now))))

\* surface B after the body arrived
AfterBodyB(v, body, now) ==
    LET je == JsonExc(body, v.status)
        w == [v EXCEPT !.body = body]
    IN  IF je # NoExc THEN Finish(w, FailB(v.name, je))
        ELSE IF v.name = "nocodb_test_connection"
        THEN IF GetListExc(body) # NoExc
             THEN Finish(w, FailB(v.name, GetListExc(body)))
             ELSE Finish(w, OkB(JsonResult(body)))
        ELSE IF v.name = "nocodb_get_analytics" THEN Finish(w, SummaryB(body, now))
        ELSE Finish(w, OkB(JsonResult(body)))

(***************************************************************************)
(* Inputs of a call.                                                       *)
(***************************************************************************)
SampleValue(k) ==
    CASE k = "project_id" -> "p1"
      [] k = "table_id" -> "t1"
      [] k = "record_id" -> "r1"
      [] k = "record_data" -> "dict:data"
      [] k = "filters" -> "dict:name=x"

Without(f, k) == [j \in DOMAIN f \ {k} |-> f[j]]
Merge(f, g) == [k \in DOMAIN f \cup DOMAIN g |-> IF k \in DOMAIN g THEN g[k] ELSE f[k]]
NoArgs == [k \in {} |-> ""]

\* every data argument the catalogue declares for the operation
ArgsFull(name) == [k \in CatalogRequired(name) \cap DataArgs |-> SampleValue(k)]
\* all of them, or all but one
BaseArgs(name) ==
    {ArgsFull(name)} \cup {Without(ArgsFull(name), k) : k \in DOMAIN ArgsFull(name)}

Paging(name) ==
    IF name = "nocodb_get_records"
    THEN {[limit |-> "5", offset |-> "20"], [limit |-> "5"]}
    ELSE {}

\* surface A also reads api_token and url from the arguments
ExtrasA(name) ==
    { NoArgs, [api_token |-> "calltok"], [api_token |-> ""], [url |-> AltUrl],
      [url |-> AltUrl, api_token |-> "calltok"] } \cup Paging(name)
ExtrasB(name) == {NoArgs} \cup Paging(name)

InputsA ==
    UNION { { <<n, Merge(b, e)>> : b \in BaseArgs(n), e \in ExtrasA(n) } :
            n \in ToolNames \cup {UnknownName} }
InputsB ==
    UNION { { <<n, Merge(b, e)>> : b \in BaseArgs(n), e \in ExtrasB(n) } :
            n \in RegisteredB \cup {UnknownName} }

\* the inputs of the concurrency specification: what an invocation does to
\* the session does not depend on the operation's arguments
CoreNames == {"nocodb_test_connection", "nocodb_delete_record", UnknownName}
CoreInputsA == { <<n, ArgsFull(n)>> : n \in CoreNames }
CoreInputsB == { <<n, ArgsFull(n)>> : n \in CoreNames }
CoreResponses ==
    {Resp(200, NoExc), Resp(404, NoExc), Resp(0, Exc("TimeoutError", 0, ""))}
CoreBodies == {RespBody("obj", FALSE, <<>>), RespBody("badjson", FALSE, <<>>)}

\* the inputs of the aggregation specification: nocodb_get_analytics over
\* batches of up to MaxBatch records.  The timestamps stand at the cutoff
\* (now - 24h), one minute after it (now - 23h59m), before and after it,
\* written with and without a trailing Z, or are absent, empty, no date,
\* no text.
AggRecords ==
    SampleRecords \cup
    { Rec("http://img/3", "true", NoneVal, "sref3", "wide", Ts("naive", ClockNow - Day + 1)),
      Rec("http://img/4", NoneVal, "true", NoneVal, "close", Ts("naive", ClockNow - 2 * Day)),
      Rec(NoneVal, "true", "true", "sref1", "", Ts("empty", 0)),
      Rec(NoneVal, "false", NoneVal, NoneVal, "wide", Ts("aware", ClockNow - Day)) }
AggBatches == UNION { [1..n -> AggRecords] : n \in 0..MaxBatch }
AggBodies ==
    { RespBody(k, FALSE, <<>>) : k \in {"obj", "arr", "empty"} }
    \cup { RespBody("obj", TRUE, b) : b \in AggBatches }
AggInputs == { <<"nocodb_get_analytics", ArgsFull("nocodb_get_analytics")>> }
AggResponses == {Resp(200, NoExc), Resp(404, NoExc)}

(***************************************************************************)
(* Actions.                                                                *)
(***************************************************************************)
\* startup_event (A) logs; lifespan (B) reads the environment, raises
\* ValueError without a credential and creates the context otherwise.  When
\* it raises, its finally clause runs with no context bound: nothing is closed.
Startup ==
    /\ phase \in {"init", "stopped"}
    /\ created < MaxSessions
    /\ IF surface = "A"
       THEN phase' = "running" /\ UNCHANGED ctx
       ELSE IF ~Truthy(envToken)
       THEN phase' = "failed" /\ ctx' = NoCtx
       ELSE /\ phase' = "running"
            /\ ctx' = Ctx(TRUE, RStripSlash(EnvUrl), envToken, 0)
    /\ UNCHANGED <<surface, envToken, created, open, inv>>

\* shutdown_event (A) and the finally clause of lifespan (B): release
Shutdown ==
    /\ phase = "running"
    /\ LET r == close_session(ctx.session, open)
       IN  /\ open' = r.open
           /\ ctx' = [ctx EXCEPT !.session = r.session]
    /\ phase' = "stopped"
    /\ UNCHANGED <<surface, envToken, created, inv>>

\* POST /call
CallA(i, inputs) ==
    /\ surface = "A" /\ phase = "running" /\ inv[i].pc = "idle"
    /\ \E in \in inputs :
         LET r == StartA(in[1], in[2], ctx, created, open)
         IN  /\ inv' = [inv EXCEPT ![i] = r.v]
             /\ ctx' = [ctx EXCEPT !.session = r.ss.session]
             /\ created' = r.ss.created
             /\ open' = r.ss.open
    /\ UNCHANGED <<surface, envToken, phase>>

\* a tool call of surface B
CallB(i, inputs) ==
    /\ surface = "B" /\ phase = "running" /\ inv[i].pc = "idle"
    /\ \E in \in inputs :
         LET r == StartB(in[1], in[2], ctx, created, open)
         IN  /\ inv' = [inv EXCEPT ![i] = r.v]
             /\ ctx' = [ctx EXCEPT !.session = r.ss.session]
             /\ created' = r.ss.created
             /\ open' = r.ss.open
    /\ UNCHANGED <<surface, envToken, phase>>

\* the response, or the failure of the transport, reaches the invocation
OnResponse(i, responses) ==
    /\ inv[i].pc = "response"
    /\ \E resp \in responses :
         inv' = [inv EXCEPT ![i] = IF surface = "A" THEN AfterResponseA(@, resp)
                                   ELSE AfterResponseB(@, resp)]
    /\ UNCHANGED <<surface, envToken, phase, ctx, created, open>>

\* await response.json() returns or raises
OnBody(i, bodies) ==
    /\ inv[i].pc = "body"
    /\ \E body \in bodies :
         inv' = [inv EXCEPT ![i] = IF surface = "A" THEN AfterBodyA(@, body, ClockNow)
                                   ELSE AfterBodyB(@, body, ClockNow)]
    /\ UNCHANGED <<surface, envToken, phase, ctx, created, open>>

\* await response.text() returns or raises (nocodb_test_connection, B)
OnText(i) ==
    /\ inv[i].pc = "text"
    /\ \E broken \in BOOLEAN : inv' = [inv EXCEPT ![i] = AfterTextB(@, broken)]
    /\ UNCHANGED <<surface, envToken, phase, ctx, created, open>>

\* the caller has its answer; the slot serves the next call
Return(i) ==
    /\ inv[i].pc = "done"
    /\ inv' = [inv EXCEPT ![i] = Idle]
    /\ UNCHANGED <<surface, envToken, phase, ctx, created, open>>

(***************************************************************************)
(* Specifications.                                                         *)
(***************************************************************************)
InitWith(slots) ==
    /\ surface \in {"A", "B"}
    /\ envToken \in EnvTokens
    /\ phase = "init"
    /\ ctx = IF surface = "A" THEN Ctx(TRUE, EnvUrl, envToken, 0) ELSE NoCtx
    /\ created = 0
    /\ open = {}
    /\ inv = [i \in slots |-> Idle]

\* one invocation at a time, every operation, argument mapping and response
Init == InitWith({1})

Next ==
    \/ Startup
    \/ Shutdown
    \/ \E i \in DOMAIN inv : CallA(i, InputsA)
    \/ \E i \in DOMAIN inv : CallB(i, InputsB)
    \/ \E i \in DOMAIN inv : OnResponse(i, Responses)
    \/ \E i \in DOMAIN inv : OnBody(i, Bodies)
    \/ \E i \in DOMAIN inv : OnText(i)
    \/ \E i \in DOMAIN inv : Return(i)

Spec == Init /\ [][Next]_vars

\* concurrent invocations under cooperative scheduling
InitConc == InitWith(1..MaxInv)

NextConc ==
    \/ Startup
    \/ Shutdown
    \/ \E i \in DOMAIN inv : CallA(i, CoreInputsA)
    \/ \E i \in DOMAIN inv : CallB(i, CoreInputsB)
    \/ \E i \in DOMAIN inv : OnResponse(i, CoreResponses)
    \/ \E i \in DOMAIN inv : OnBody(i, CoreBodies)
    \/ \E i \in DOMAIN inv : OnText(i)
    \/ \E i \in DOMAIN inv : Return(i)

SpecConc == InitConc /\ [][NextConc]_vars

\* the analytics operation over batches of records
NextAgg ==
    \/ Startup
    \/ Shutdown
    \/ \E i \in DOMAIN inv : CallA(i, AggInputs)
    \/ \E i \in DOMAIN inv : CallB(i, AggInputs)
    \/ \E i \in DOMAIN inv : OnResponse(i, AggResponses)
    \/ \E i \in DOMAIN inv : OnBody(i, AggBodies)
    \/ \E i \in DOMAIN inv : Return(i)

SpecAgg == Init /\ [][NextAgg]_vars

(***************************************************************************)
(* Properties.                                                             *)
(***************************************************************************)
Slots == DOMAIN inv
Served(v) == v.pc # "idle"
Done(v) == v.pc = "done"
\* the invocation ended in a failure: no result of a tool, or success=false
Failure(v) == v.out.fault \/ (~v.out.success /\ v.out.hasError)
\* an argument the catalogue declares required for the operation is absent
LacksDeclared(v) == \E k \in CatalogRequired(v.name) \cap DataArgs : k \notin DOMAIN v.args
\* the name is none the surface serves
UnknownOp(v) == IF surface = "A" THEN v.name \notin ToolNames ELSE v.name \notin RegisteredB
\* neither the caller nor the process offers a credential
NoCredential(v) ==
    /\ ~Truthy(envToken)
    /\ surface = "A" => ~Truthy(ArgGet(v.args, "api_token", NoneVal))
Is2xx(st) == st >= 200 /\ st < 300

\* C1: in surface A a request with an unknown name, and a request for which
\* no credential is available, are answered with HTTP status 400.
C1_BadRequestIs400 ==
    \A i \in Slots :
        (surface = "A" /\ Done(inv[i]) /\ (UnknownOp(inv[i]) \/ NoCredential(inv[i])))
            => inv[i].out.http = 400

\* C2: an invocation that lacks an argument the catalogue declares required
\* for its operation ends in a failure and issues no outbound request.
C2_MissingArgumentNoRequest ==
    \A i \in Slots :
        (Served(inv[i]) /\ inv[i].name \in ToolNames /\ LacksDeclared(inv[i]))
            => (Done(inv[i]) /\ Failure(inv[i]) /\ inv[i].nreq = 0)

\* C3: an invocation with an unknown operation name, and one made when no
\* credential is available, end in a failure having issued no outbound
\* request; surface B serves no tool call when the process credential is
\* absent, because its startup fails.
C3_NoRequestWithoutNameOrCredential ==
    /\ \A i \in Slots :
         (Served(inv[i]) /\ (UnknownOp(inv[i]) \/ NoCredential(inv[i])))
             => (Done(inv[i]) /\ Failure(inv[i]) /\ inv[i].nreq = 0)
    /\ (surface = "B" /\ ~Truthy(envToken))
         => (phase # "running" /\ \A i \in Slots : ~Served(inv[i]))

\* an unknown name was dispatched with a credential: a session was acquired,
\* nothing was sent
C3_Witness ==
    \E i \in Slots :
        /\ Done(inv[i]) /\ UnknownOp(inv[i]) /\ Truthy(inv[i].token)
        /\ inv[i].acq /\ inv[i].nreq = 0 /\ Failure(inv[i])

\* the shape of a structured failure of each surface
StructuredFailure(v) ==
    /\ ~v.out.fault /\ ~v.out.success /\ v.out.hasError
    /\ v.out.http = IF surface = "A" THEN 200 ELSE 0

C5_Non2xxFailsWithStatus ==
    \A i \in Slots :
        ( /\ Done(inv[i]) /\ inv[i].name \in ToolNames
          /\ inv[i].status # 0 /\ ~Is2xx(inv[i].status) )
            => ( /\ ~inv[i].out.success /\ inv[i].out.hasError
                 /\ MsgHasStatus(inv[i].out.error, inv[i].status) )

\* C6: an invocation of a supported operation that has every required
\* argument and resolves a non-empty credential has issued exactly one
\* outbound request when it returns, whether the request succeeded or not;
\* no invocation ever issues a second request.
C6_ExactlyOneRequest ==
    \A i \in Slots :
        /\ inv[i].nreq <= 1
        /\ ( /\ Done(inv[i]) /\ inv[i].name \in ToolNames
             /\ ~LacksDeclared(inv[i]) /\ Truthy(inv[i].token) )
               => inv[i].nreq = 1

\* a request that the remote service refused was surfaced, after one request
C6_Witness ==
    \E i \in Slots :
        /\ Done(inv[i]) /\ inv[i].status = 404 /\ inv[i].nreq = 1
        /\ ~inv[i].out.success

\* C7: acquire returns an open session, which the context then holds: the
\* held session, with nothing constructed, when that one is open; exactly
\* one new session otherwise.
C7_AcquireReturnsOpen ==
    [][ \A i \in Slots :
          (inv[i].pc = "idle" /\ inv'[i].acq) =>
            /\ inv'[i].sess \in open'
            /\ ctx'.session = inv'[i].sess
            /\ IF ctx.session \in open
               THEN /\ inv'[i].sess = ctx.session
                    /\ created' = created
                    /\ open' = open
               ELSE /\ created' = created + 1
                    /\ inv'[i].sess \notin 1..created
                    /\ open' = open \cup {inv'[i].sess} ]_vars

\* after a release, acquire constructed a second session and returned it
C7_Witness ==
    \E i \in Slots :
        /\ inv[i].acq /\ created >= 2 /\ inv[i].sess = created
        /\ ctx.session = created /\ created \in open

\* C8: at most one session is open at any time, and invocations that hold
\* an open session hold the same one, the one of the context.
C8_AtMostOneOpenSession ==
    /\ Cardinality(open) <= 1
    /\ \A i \in Slots :
         (inv[i].acq /\ inv[i].sess \in open) => inv[i].sess = ctx.session

\* two invocations are in flight on the one session constructed so far
C8_Witness ==
    \E i, j \in Slots :
        /\ i # j /\ inv[i].pc = "response" /\ inv[j].pc = "response"
        /\ inv[i].sess = inv[j].sess /\ inv[i].sess \in open /\ created = 1

\* C9: release closes the session when one is open, changes nothing and
\* raises nothing when there is none or it is closed, and a second release
\* leaves the state of the first; shutdown performs a release.
C9_ReleaseIdempotent ==
    /\ [] LET r1 == close_session(ctx.session, open)
              r2 == close_session(r1.session, r1.open)
          IN  /\ ~r1.raised /\ ~r2.raised
              /\ r2 = r1
              /\ r1.session = ctx.session
              /\ r1.open = IF ctx.session \in open THEN open \ {ctx.session} ELSE open
    /\ [][ (phase = "running" /\ phase' = "stopped") =>
              /\ open' = open \ {ctx.session}
              /\ ctx' = ctx ]_vars

\* a release has closed a session: the next release finds it closed
C9_Witness == phase = "stopped" /\ ctx.session # 0 /\ ctx.session \notin open

\* C10: once shutdown has completed the context holds no open session; a
\* surface B startup that failed has no context and no session.
C10_NoOpenSessionAfterShutdown ==
    /\ phase = "stopped" => ctx.session \notin open
    /\ phase = "failed" => (~ctx.exists /\ open = {})

\* shutdown released the session while an invocation was still in flight on it
C10_Witness ==
    \E i \in Slots :
        /\ phase = "stopped" /\ inv[i].pc = "response"
        /\ inv[i].sess = ctx.session /\ ctx.session # 0

\* C11: every outbound request issued by any operation, the probe of
\* health_check included, carries an authentication header whose value is a
\* credential that is neither absent nor empty.
C11_RequestsCarryCredential ==
    \A i \in Slots :
        inv[i].nreq > 0 =>
            /\ inv[i].req.authName \in {"xc-auth", "xc-token"}
            /\ inv[i].req.authValue # NoneVal
            /\ inv[i].req.authValue # ""

\* health_check has sent its probe with the credential of the context
C11_Witness ==
    \E i \in Slots :
        /\ inv[i].name = "health_check" /\ inv[i].nreq = 1
        /\ inv[i].req.authName = "xc-token" /\ inv[i].req.authValue = "envtok"

\* C12: in surface A the authentication header of an outbound request holds
\* the credential of the arguments when the arguments carry one, also when a
\* process default exists, and the process default when they carry none.
C12_CallerCredentialFirst ==
    \A i \in Slots :
        (surface = "A" /\ inv[i].nreq > 0) =>
            /\ inv[i].req.authName = "xc-auth"
            /\ inv[i].req.authValue =
                 IF "api_token" \in DOMAIN inv[i].args
                 THEN inv[i].args["api_token"]
                 ELSE ctx.api_token

\* both credentials were offered and the request carries the caller's
C12_Witness ==
    \E i \in Slots :
        /\ surface = "A" /\ inv[i].nreq = 1 /\ Truthy(ctx.api_token)
        /\ "api_token" \in DOMAIN inv[i].args
        /\ inv[i].args["api_token"] # ctx.api_token
        /\ inv[i].req.authValue = inv[i].args["api_token"]

\* the rows of the operation table: method, resource family, the path
\* parameters in order, and what the query or the body is made of
Row(method, family, params, payload) ==
    [method |-> method, family |-> family, params |-> params, payload |-> payload]
OperationTable(name) ==
    CASE name = "nocodb_test_connection" -> Row("GET", "meta", <<>>, "none")
      [] name = "nocodb_list_projects" -> Row("GET", "meta", <<>>, "none")
      [] name = "nocodb_list_tables" -> Row("GET", "meta", <<"project_id">>, "none")
      [] name = "nocodb_get_records" ->
            Row("GET", "data", <<"project_id", "table_id">>, "paging")
      [] name = "nocodb_create_record" ->
            Row("POST", "data", <<"project_id", "table_id">>, "record_data")
      [] name = "nocodb_search_records" ->
            Row("GET", "data", <<"project_id", "table_id">>, "where")
      [] name = "nocodb_update_record" ->
            Row("PATCH", "data", <<"project_id", "table_id", "record_id">>, "record_data")
      [] name = "nocodb_delete_record" ->
            Row("DELETE", "data", <<"project_id", "table_id", "record_id">>, "none")
      [] name = "nocodb_create_discord_reactions_table" ->
            Row("POST", "meta", <<"project_id">>, "schema")
      [] name = "nocodb_get_analytics" ->
            Row("GET", "data", <<"project_id", "table_id">>, "limit=1000")

\* the path of a row with the arguments put in verbatim: /meta/projects and
\* /data stand under the API root of the remote service
RowPath(row, args) ==
    LET p == [k \in DOMAIN row.params |-> args[row.params[k]]]
    IN  IF row.family = "meta"
        THEN IF Len(p) = 0 THEN <<"/api/v1/db/meta/projects">>
             ELSE <<"/api/v1/db/meta/projects/", p[1], "/tables">>
        ELSE <<"/api/v1/db/data/noco/", p[1], "/", p[2]>>
             \o (IF Len(p) > 2 THEN <<"/", p[3]>> ELSE <<>>)
             \o (IF row.payload = "limit=1000" THEN <<"?limit=1000">> ELSE <<>>)

\* C13: for every operation the outbound request has the method and the path
\* of its row of the operation table, with project_id, table_id and record_id
\* put in verbatim, and the row's query and body: get_records sends limit and
\* offset, 10 and 0 when the arguments hold none; search_records sends
\* where=serialize(filters); create_record and update_record send record_data
\* as the body, create_discord_reactions_table the fixed schema, get_analytics
\* limit=1000; the other operations send neither query nor body.
C13_RequestFollowsTable ==
    \A i \in Slots :
        (inv[i].nreq > 0 /\ inv[i].name \in ToolNames) =>
            LET row == OperationTable(inv[i].name)
                args == inv[i].args
                req == inv[i].req
            IN  /\ req.method = row.method
                /\ req.path = RowPath(row, args)
                /\ row.payload = "paging" =>
                     req.query =
                       << <<"limit", IF "limit" \in DOMAIN args THEN args["limit"] ELSE "10">>,
                          <<"offset", IF "offset" \in DOMAIN args THEN args["offset"] ELSE "0">> >>
                /\ (row.payload = "where" /\ "filters" \in DOMAIN args) =>
                     req.query = << <<"where", JsonDumps(args["filters"])>> >>
                /\ row.payload \notin {"paging", "where"} => req.query = <<>>
                /\ req.body = CASE row.payload = "record_data" -> args["record_data"]
                                [] row.payload = "schema" -> TableSchema
                                [] OTHER -> NoneVal

\* get_records was called without limit and offset and sent limit=10, offset=0
C13_Witness ==
    \E i \in Slots :
        /\ inv[i].name = "nocodb_get_records" /\ inv[i].nreq = 1
        /\ "limit" \notin DOMAIN inv[i].args /\ "offset" \notin DOMAIN inv[i].args
        /\ inv[i].req.method = "GET"
        /\ inv[i].req.query = << <<"limit", "10">>, <<"offset", "0">> >>

\* an analytics invocation that returned after parsing a JSON object
Aggregated(v) ==
    Done(v) /\ v.name = "nocodb_get_analytics" /\ v.body.kind = "obj"
\* the timestamp is an ISO-8601 text, without offset or with a trailing Z
IsoText(ts) == ts.kind \in {"naive", "aware"}
\* the timestamp is missing, empty, no text or no ISO-8601 text
NoInstant(ts) == ts.kind \in {"absent", "empty", "number", "malformed"}
\* the records of the batch whose instant lies strictly after now - 24h
After24h(records, now) ==
    {k \in DOMAIN records :
        IsoText(records[k].timestamp) /\ records[k].timestamp.t > now - Day}
Summary(v) == v.out.result.analytics

\* C14: a record whose timestamp is an ISO-8601 instant written with a
\* trailing Z and lying strictly after now - 24h is counted in recent_24h,
\* and the analytics operation over a batch that holds such a record (its
\* other timestamps being missing or ISO-8601 texts) returns a success.
C14_ZTimestampCounted ==
    \A i \in Slots :
        LET records == RecordsOf(inv[i].body)
        IN  ( /\ Aggregated(inv[i])
              /\ \A k \in DOMAIN records :
                    records[k].timestamp.kind \in {"absent", "empty", "naive", "aware"}
              /\ \E k \in After24h(records, ClockNow) :
                    records[k].timestamp.kind = "aware" )
            => /\ inv[i].out.success
               /\ Summary(inv[i]).recent_24h = Cardinality(After24h(records, ClockNow))

\* C15: for every batch, a record whose timestamp is missing, empty, no
\* string or no ISO-8601 text is left out of recent_24h and does not make the
\* analytics operation fail: over a batch whose other timestamps are texts
\* without offset the operation returns a success that counts those of them
\* that lie after now - 24h, and every record in total.
C15_BadTimestampLeftOut ==
    \A i \in Slots :
        LET records == RecordsOf(inv[i].body)
        IN  ( /\ Aggregated(inv[i])
              /\ \A k \in DOMAIN records :
                    \/ NoInstant(records[k].timestamp)
                    \/ records[k].timestamp.kind = "naive" )
            => /\ inv[i].out.success
               /\ Summary(inv[i]).total_reactions = Len(records)
               /\ Summary(inv[i]).recent_24h = Cardinality(After24h(records, ClockNow))

\* C16: recent_24h compares strictly: in every summary returned, a record
\* whose timestamp equals now - 24h is not counted and a record whose
\* timestamp is later, be it by one minute, is counted; a batch whose
\* timestamps are all texts without offset, or missing, gets its summary.
C16_StrictCutoff ==
    \A i \in Slots :
        LET records == RecordsOf(inv[i].body)
            counted == {k \in DOMAIN records :
                            /\ records[k].timestamp.kind = "naive"
                            /\ records[k].timestamp.t >= ClockNow - Day + 1}
            atCutoff == {k \in DOMAIN records :
                            /\ records[k].timestamp.kind = "naive"
                            /\ records[k].timestamp.t = ClockNow - Day}
        IN  Aggregated(inv[i]) =>
              /\ inv[i].out.success =>
                   /\ Summary(inv[i]).recent_24h = Cardinality(counted)
                   /\ Summary(inv[i]).recent_24h <= Len(records) - Cardinality(atCutoff)
              /\ (\A k \in DOMAIN records :
                     records[k].timestamp.kind \in {"absent", "empty", "naive"})
                   => inv[i].out.success

\* a record at now - 24h and one at now - 23h59m: the summary counts one
C16_Witness ==
    \E i \in Slots :
        LET records == RecordsOf(inv[i].body)
        IN  /\ Aggregated(inv[i]) /\ inv[i].out.success /\ Len(records) = 2
            /\ records[1].timestamp = Ts("naive", ClockNow - Day)
            /\ records[2].timestamp = Ts("naive", ClockNow - Day + 1)
            /\ Summary(inv[i]).recent_24h = 1

\* C17: analytics over an empty batch, the list being empty or the body
\* having no list member, is a success with total 0, every count 0, an empty
\* shot_types mapping and the three percentages 0.
C17_EmptyBatchAllZero ==
    \A i \in Slots :
        (Aggregated(inv[i]) /\ RecordsOf(inv[i].body) = <<>>) =>
            /\ inv[i].out.success /\ inv[i].out.exc = NoExc
            /\ inv[i].out.result.tag = "analytics"
            /\ Summary(inv[i]).total_reactions = 0
            /\ Summary(inv[i]).with_images = 0
            /\ Summary(inv[i]).cinematic_count = 0
            /\ Summary(inv[i]).anime_count = 0
            /\ Summary(inv[i]).with_sref_codes = 0
            /\ Summary(inv[i]).recent_24h = 0
            /\ DOMAIN Summary(inv[i]).shot_types = {}
            /\ Summary(inv[i]).cinematic_percentage = 0
            /\ Summary(inv[i]).anime_percentage = 0
            /\ Summary(inv[i]).sref_coverage = 0

\* the remote service answered an object without a list member
C17_Witness ==
    \E i \in Slots :
        /\ Aggregated(inv[i]) /\ ~inv[i].body.hasList
        /\ inv[i].out.success /\ Summary(inv[i]).total_reactions = 0

\* the batch in another order
Perms(n) == {p \in [1..n -> 1..n] : \A j, k \in 1..n : p[j] = p[k] => j = k}
Permuted(body, p) == [body EXCEPT !.list = [k \in DOMAIN body.list |-> body.list[p[k]]]]
SummaryOf(body, now) == IF surface = "A" THEN SummaryA(body, now) ELSE SummaryB(body, now)

\* C18: the analytics summary does not depend on the order of the records:
\* the operation over any permutation of the batch, with the same now, ends
\* the same way, and when it returns a summary the totals, the field counts,
\* the shot_types mapping, recent_24h and the percentages are those of the
\* batch as it was received.
C18_OrderInvariant ==
    \A i \in Slots :
        Aggregated(inv[i]) =>
            \A p \in Perms(Len(inv[i].body.list)) :
                LET other == SummaryOf(Permuted(inv[i].body, p), ClockNow)
                IN  /\ other.success = inv[i].out.success
                    /\ other.result = inv[i].out.result

\* a summary over two different records, one of them recent
C18_Witness ==
    \E i \in Slots :
        LET records == RecordsOf(inv[i].body)
        IN  /\ Aggregated(inv[i]) /\ inv[i].out.success /\ Len(records) = 2
            /\ records[1] # records[2]
            /\ ~IsRecent(records[1].timestamp, ClockNow)
            /\ IsRecent(records[2].timestamp, ClockNow)
            /\ Summary(inv[i]).recent_24h = 1

\* C19: delete_record, when the remote service answers with a success
\* status, returns the fixed confirmation with the message "Record deleted
\* successfully"; it never awaits or parses the response body, so no body,
\* an empty one included, makes it fail.
C19_DeleteConfirmsWithoutBody ==
    \A i \in Slots :
        inv[i].name = "nocodb_delete_record" =>
            /\ inv[i].pc \notin {"body", "text"}
            /\ inv[i].body = NoBody
            /\ (inv[i].resp.exc = NoExc /\ Is2xx(inv[i].status)) =>
                 /\ Done(inv[i])
                 /\ inv[i].out.success /\ ~inv[i].out.hasError
                 /\ inv[i].out.result.tag = "deleted"
                 /\ inv[i].out.result.message = "Record deleted successfully"

\* the remote service answered 200 and the confirmation was returned
C19_Witness ==
    \E i \in Slots :
        /\ inv[i].name = "nocodb_delete_record" /\ Done(inv[i])
        /\ inv[i].status = 200 /\ inv[i].body = NoBody
        /\ inv[i].out.success /\ inv[i].out.result = DeletedResult

\* the same call, with the same response and body, served by the other
\* surface started with the same environment
OtherStart(v) ==
    IF surface = "A"
    THEN StartB(v.name, v.args, Ctx(TRUE, RStripSlash(EnvUrl), envToken, 0), 0, {}).v
    ELSE StartA(v.name, v.args, Ctx(TRUE, EnvUrl, envToken, 0), 0, {}).v
OtherRun(v) ==
    LET s0 == OtherStart(v)
        s1 == IF surface = "A" THEN AfterResponseB(s0, v.resp)
              ELSE AfterResponseA(s0, v.resp)
        s2 == IF surface = "A" THEN AfterBodyB(s1, v.body, ClockNow)
              ELSE AfterBodyA(s1, v.body, ClockNow)
    IN  IF s0.pc # "response" \/ v.nreq = 0 THEN s0
        ELSE IF s1.pc = "body" THEN s2
        ELSE IF s1.pc = "text" THEN AfterTextB(s1, FALSE)
        ELSE s1

\* C20: the two front doors are functionally equivalent: for every
\* operation, every argument mapping without url or api_token, and every
\* remote response, surface A and surface B issue the same request (method,
\* base URL, path, query and body; the name of the authentication header
\* aside) and agree on whether the invocation ends in success or in failure.
C20_SurfacesEquivalent ==
    \A i \in Slots :
        ( /\ Done(inv[i]) /\ inv[i].name \in ToolNames
          /\ "url" \notin DOMAIN inv[i].args /\ "api_token" \notin DOMAIN inv[i].args
          /\ Truthy(envToken) )
        => LET other == OtherRun(inv[i])
           IN  /\ other.nreq = inv[i].nreq
               /\ other.req.method = inv[i].req.method
               /\ other.req.base = inv[i].req.base
               /\ other.req.path = inv[i].req.path
               /\ other.req.query = inv[i].req.query
               /\ other.req.body = inv[i].req.body
               /\ Done(other)
               /\ other.out.success = inv[i].out.success

\* the message has text
NonEmptyText(msg) == \E k \in DOMAIN msg : msg[k] # ""

\* C21: every result returned to a caller is exactly one of two variants: a
\* success that carries a result payload and no error, or a failure that
\* carries a non-empty error message and no result payload; none has both
\* or neither.
C21_ExactlyOneVariant ==
    \A i \in Slots :
        (Done(inv[i]) /\ ~inv[i].out.fault) =>
            \/ /\ inv[i].out.success
               /\ inv[i].out.hasResult /\ ~inv[i].out.hasError
            \/ /\ ~inv[i].out.success
               /\ inv[i].out.hasError /\ NonEmptyText(inv[i].out.error)
               /\ ~inv[i].out.hasResult

\* C22: in surface A, when the arguments of a call hold url, the outbound
\* request of that invocation goes to that URL with its trailing slashes
\* removed, not to the configured base URL, and carries the resolved
\* credential: the api_token of the arguments, or the process default when
\* the caller supplied none.
C22_UrlArgumentIsTheTarget ==
    \A i \in Slots :
        (surface = "A" /\ inv[i].nreq > 0 /\ "url" \in DOMAIN inv[i].args) =>
            LET url == inv[i].args["url"]
                base == inv[i].req.base
            IN  /\ Len(base) <= Len(url)
                /\ base = SubSeq(url, 1, Len(base))
                /\ \A k \in (Len(base) + 1)..Len(url) : url[k] = "/"
                /\ Len(base) > 0 => base[Len(base)] # "/"
                /\ inv[i].req.authValue =
                     IF "api_token" \in DOMAIN inv[i].args
                     THEN inv[i].args["api_token"]
                     ELSE ctx.api_token
                /\ Truthy(inv[i].req.authValue)

\* a call with url and without api_token sent the process default to that url
C22_Witness ==
    \E i \in Slots :
        /\ surface = "A" /\ inv[i].nreq = 1
        /\ "url" \in DOMAIN inv[i].args /\ "api_token" \notin DOMAIN inv[i].args
        /\ inv[i].args["url"] = AltUrl
        /\ inv[i].req.base = <<"http://alt.example">>
        /\ inv[i].req.base # RStripSlash(EnvUrl)
        /\ inv[i].req.authValue = "envtok"

=============================================================================
